---- MODULE Spec2Model ----
(***************************************************************************)
(* torrentinfo: the bencode decoder (StringBuffer, Torrent.parse, String,  *)
(* Integer, Dictionary, List) and the per-file loop of main.               *)
(*                                                                         *)
(* A byte is a one-character string, a buffer a sequence of bytes.  The    *)
(* cursor index is the 0-based Python index; Python's slicing and negative *)
(* indexing are modelled as Python computes them.  Every cursor operation  *)
(* of the decoder (peek, get, get_upto) is one step.                       *)
(***************************************************************************)
EXTENDS Integers, Sequences, FiniteSets, TLC

VARIABLES revision, filenames, disk, settings, asciionly, fileno, pc,
          string, index, stack, torrent, exc, stdout, stderr, op

vars == <<revision, filenames, disk, settings, asciionly, fileno, pc,
          string, index, stack, torrent, exc, stdout, stderr, op>>

----------------------------------------------------------------------------
(* Bounds *)

\* longest buffer of the exhaustive decode specification
MaxLen == 4

\* longest batch of files given to main
MaxFiles == 2

\* deepest indentation a dump is called with
MaxDepth == 2

\* most get calls made on one StringBuffer
MaxGets == 3

\* most key and value pairs of a dictionary, and most items of a list, that
\* a dump is called on
MaxItems == 3

\* longest value of the Strings that are classified and dumped
MaxValue == 2

----------------------------------------------------------------------------
(* Python built-ins used by the code *)

None == [type |-> "None"]

Digits == {"0", "1", "2", "3", "4", "5", "6", "7", "8", "9"}

DigitVal(c) ==
  CASE c = "0" -> 0 [] c = "1" -> 1 [] c = "2" -> 2 [] c = "3" -> 3
    [] c = "4" -> 4 [] c = "5" -> 5 [] c = "6" -> 6 [] c = "7" -> 7
    [] c = "8" -> 8 [] c = "9" -> 9

\* s[i] of Python: a negative i counts from the end, out of range is IndexError
PyIndexOK(s, i) == i >= 0 - Len(s) /\ i < Len(s)

PyIndex(s, i) == IF i < 0 THEN s[i + Len(s) + 1] ELSE s[i + 1]

\* the bound adjustment of a Python slice
PyClamp(s, i) ==
  IF i < 0
  THEN (IF i + Len(s) < 0 THEN 0 ELSE i + Len(s))
  ELSE (IF i > Len(s) THEN Len(s) ELSE i)

\* s[a:b] of Python
PySlice(s, a, b) ==
  LET lo == PyClamp(s, a)
      hi == PyClamp(s, b)
  IN IF lo < hi THEN SubSeq(s, lo + 1, hi) ELSE <<>>

RECURSIVE DigitsValue(_)
DigitsValue(s) ==
  IF s = <<>> THEN 0
  ELSE 10 * DigitsValue(SubSeq(s, 1, Len(s) - 1)) + DigitVal(s[Len(s)])

IsDigits(s) == s # <<>> /\ \A k \in 1..Len(s) : s[k] \in Digits

\* int(s), base 10: an optional sign, then one or more digits; anything else
\* is ValueError.  (Surrounding white space, which int() strips, is not in
\* the alphabets used here.)
PyIntOK(s) ==
  IF s # <<>> /\ s[1] \in {"-", "+"} THEN IsDigits(Tail(s)) ELSE IsDigits(s)

PyInt(s) ==
  IF s[1] = "-" THEN 0 - DigitsValue(Tail(s))
  ELSE IF s[1] = "+" THEN DigitsValue(Tail(s))
  ELSE DigitsValue(s)

\* '%d' % n
RECURSIVE NatText(_)
NatText(n) ==
  LET d == CHOOSE c \in Digits : DigitVal(c) = n % 10
  IN IF n < 10 THEN <<d>> ELSE NatText(n \div 10) \o <<d>>

IntText(n) == IF n < 0 THEN <<"-">> \o NatText(0 - n) ELSE NatText(n)

----------------------------------------------------------------------------
(* StringBuffer *)

\* the outcome of a cursor operation: the exception raised (or "none"), its
\* argument, the value returned and the index afterwards
Outcome(e, n, ch, r, i) == [exc |-> e, n |-> n, ch |-> ch, ret |-> r, index |-> i]

is_eof(s, i) == i >= Len(s)

peek(s, i) ==
  IF is_eof(s, i) THEN Outcome("BufferOverrun", 1, "", <<>>, i)
  ELSE IF ~PyIndexOK(s, i) THEN Outcome("IndexError", 0, "", <<>>, i)
  ELSE Outcome("none", 0, "", <<PyIndex(s, i)>>, i)

\* a get that leaves the cursor one byte short of the end of the segment
get_short(s, i, length) ==
  LET last == i + length
  IN IF last > Len(s)
     THEN Outcome("BufferOverrun", last - Len(s), "", <<>>, i)
     ELSE Outcome("none", 0, "", PySlice(s, i, last),
                  IF length > 1 THEN last - 1 ELSE last)

get(s, i, length) ==
  LET last == i + length
  IN IF last > Len(s)
     THEN Outcome("BufferOverrun", last - Len(s), "", <<>>, i)
     ELSE Outcome("none", 0, "", PySlice(s, i, last), last)

RECURSIVE get_upto_loop(_, _, _, _)
get_upto_loop(s, i, character, string_buffer) ==
  IF is_eof(s, i)
  THEN Outcome("CharacterExpected", 0, character, <<>>, i)
  ELSE LET next_char == get(s, i, 1)
       IN IF next_char.ret = <<character>>
          THEN Outcome("none", 0, "", string_buffer, next_char.index)
          ELSE get_upto_loop(s, next_char.index, character,
                             string_buffer \o next_char.ret)

get_upto(s, i, character) == get_upto_loop(s, i, character, <<>>)

----------------------------------------------------------------------------
(* The decoded tree *)

\* string.printable (the backquote, which a string cannot hold, is <60>)
PrintableChars ==
  Digits \cup
  {"a", "b", "c", "d", "e", "f", "g", "h", "i", "j", "k", "l", "m",
   "n", "o", "p", "q", "r", "s", "t", "u", "v", "w", "x", "y", "z",
   "A", "B", "C", "D", "E", "F", "G", "H", "I", "J", "K", "L", "M",
   "N", "O", "P", "Q", "R", "S", "T", "U", "V", "W", "X", "Y", "Z",
   "!", "\"", "#", "$", "%", "&", "'", "(", ")", "*", "+", ",", "-",
   ".", "/", ":", ";", "<", "=", ">", "?", "@", "[", "\\", "]", "^",
   "_", "<60>", "{", "|", "}", "~", " ", "\t", "\n", "\r", "<0B>", "<0C>"}

\* the bytes of range(0, 32) + range(127, 160) that the alphabets here use;
\* a byte that has no one-character string is written <hex>
ControlChars ==
  {"<00>", "<01>", "<0B>", "<0C>", "<1F>", "\t", "\n", "\r",
   "<7F>", "<85>", "<9F>"}

\* control_char_re.match(value): re.match looks at the start of the value only
control_char_match(value) == value # <<>> /\ value[1] \in ControlChars

\* a classification that does not look at String.asciionly: C15 must tell
\* it apart
is_printable_unicode(value, ascii) == ~control_char_match(value)

is_printable(value, ascii) ==
  LET isascii == \A k \in 1..Len(value) : value[k] \in PrintableChars
      isunicode == ~control_char_match(value)
  IN IF ascii THEN isascii ELSE isunicode

\* a String that loses the last byte of its value: C6 must tell it apart
StringNode_short(length, value, ascii) ==
  [type |-> "String", length |-> length,
   value |-> SubSeq(value, 1, Len(value) - 1),
   isprintable |-> is_printable(value, ascii)]

StringNode(length, value, ascii) ==
  [type |-> "String", length |-> length, value |-> value,
   isprintable |-> is_printable(value, ascii)]

IntegerNode(value) == [type |-> "Integer", value |-> value]

ListNode(items) == [type |-> "List", value |-> items]

\* a dictionary is the sequence of its entries [key, val], one per distinct
\* key value, in the order in which the keys were first inserted
DictionaryNode(entries) == [type |-> "Dictionary", value |-> entries]

\* a store that leaves the entry of an equal key as it is
DictSet_first(entries, key, val) ==
  IF \E k \in 1..Len(entries) : entries[k].key.value = key.value
  THEN entries
  ELSE Append(entries, [key |-> key, val |-> val])

\* self.value[key] = val: an equal key (String.__cmp__ and __hash__ compare
\* the values) keeps its entry and its first key object
DictSet(entries, key, val) ==
  IF \E k \in 1..Len(entries) : entries[k].key.value = key.value
  THEN [k \in 1..Len(entries) |->
          IF entries[k].key.value = key.value
          THEN [key |-> entries[k].key, val |-> val]
          ELSE entries[k]]
  ELSE Append(entries, [key |-> key, val |-> val])

\* Dictionary.__contains__
Dictionary_contains(d, name) ==
  \E k \in 1..Len(d.value) : d.value[k].key.value = name

\* Dictionary.__getitem__ (the caller has checked that the key is there)
Dictionary_getitem(d, name) ==
  d.value[CHOOSE k \in 1..Len(d.value) : d.value[k].key.value = name].val

----------------------------------------------------------------------------
(* The decoder as a machine: a stack of the constructors in progress *)

Frame(fn, at, val, key) == [fn |-> fn, pc |-> at, val |-> val, key |-> key]

ParseFrame == Frame("parse", "peek", <<>>, None)

Top == stack[Len(stack)]

Below == SubSeq(stack, 1, Len(stack) - 1)

NoExc == [name |-> "none", n |-> 0, ch |-> ""]

Exc(name, n, ch) == [name |-> name, n |-> n, ch |-> ch]

Op(name, by, n, ch, out) ==
  [name |-> name, by |-> by, n |-> n, ch |-> ch, index0 |-> index, out |-> out]

NoOp == [name |-> "none", by |-> "", n |-> 0, ch |-> "", index0 |-> 0,
         out |-> Outcome("none", 0, "", <<>>, 0)]

\* a TYPE_MAP that takes every other byte for the start of a String: C5 must
\* tell it apart
TypeOf_any(c) ==
  IF c = "d" THEN "Dictionary"
  ELSE IF c = "l" THEN "List"
  ELSE IF c = "i" THEN "Integer"
  ELSE "String"

\* TYPE_MAP, in its order: the constructor for a lead byte, or "" for none
TypeOf(c) ==
  IF c = "d" THEN "Dictionary"
  ELSE IF c = "l" THEN "List"
  ELSE IF c \in Digits THEN "String"
  ELSE IF c = "i" THEN "Integer"
  ELSE ""

\* the frame of a constructor at its first cursor operation
FirstFrame(fn) ==
  IF fn = "String" THEN Frame("String", "get_upto", 0, None)
  ELSE Frame(fn, "get", <<>>, None)

----------------------------------------------------------------------------
(* main: what happens to an exception, and to a constructor's result *)

filename == filenames[fileno]

\* os.path.sep
sep == "/"

\* the text of a path, and os.path.basename of it; a file name is the
\* sequence of its path components
RECURSIVE PathText(_)
PathText(f) ==
  IF Len(f) <= 1 THEN f ELSE <<f[1], sep>> \o PathText(Tail(f))

basename(f) == <<f[Len(f)]>>

NoTorrent == [filename |-> <<>>, value |-> None]

CouldNotParse(f) == <<"Could not parse ", f, " as a valid torrent file.\n">>

\* an exception no handler of main catches leaves main; the interpreter
\* prints the traceback and the process ends
Traceback(e) == <<"Traceback (most recent call last):", e.name>>

\* a cursor operation that returned: the decoder goes on with stack st
Step(st, out, o) ==
  /\ stack' = st
  /\ index' = out.index
  /\ op' = o
  /\ UNCHANGED <<revision, filenames, disk, settings, asciionly, fileno, pc,
                 string, torrent, exc, stdout, stderr>>

\* exception e leaves Torrent.load_torrent with the cursor at i and the
\* Torrent under construction as t: main's handler for Torrent.UnknownTypeChar
\* reports the file and the loop goes to the next file; any other exception
\* is not caught inside the loop
RaiseIn(t, e, i, o) ==
  /\ stack' = <<>>
  /\ index' = i
  /\ op' = o
  /\ exc' = e
  /\ torrent' = t
  /\ IF e.name = "UnknownTypeChar"
     THEN /\ stderr' = Append(stderr, CouldNotParse(PathText(filename)))
          /\ fileno' = fileno + 1
          /\ pc' = "loop"
     ELSE /\ stderr' = Append(stderr, Traceback(e))
          /\ fileno' = fileno
          /\ pc' = "crashed"
  /\ UNCHANGED <<revision, filenames, disk, settings, asciionly, string,
                 stdout>>

Raise(e, i, o) == RaiseIn(torrent, e, i, o)

\* src/torrentinfo.py names UnexpectedType without its class, and
\* self.value__class__ without the dot
UnexpectedTypeRaised ==
  IF revision = "src/src/torrentinfo.py" THEN Exc("UnexpectedType", 0, "")
  ELSE Exc("NameError", 0, "")

\* Torrent.__init__ after Torrent.parse returned v: self.value = v, then
\* the check of its class
Torrent_init(v, out, o) ==
  IF v.type = "Dictionary"
  THEN /\ torrent' = [filename |-> filename, value |-> v]
       /\ pc' = "report"
       /\ stack' = <<>>
       /\ index' = out.index
       /\ op' = o
       /\ UNCHANGED <<revision, filenames, disk, settings, asciionly, fileno,
                      string, exc, stdout, stderr>>
  ELSE RaiseIn([filename |-> filename, value |-> v], UnexpectedTypeRaised,
               out.index, o)

\* a constructor returns v to the caller on top of st
Return(st, v, out, o) ==
  LET caller == st[Len(st)]
      rest == SubSeq(st, 1, Len(st) - 1)
  IN IF caller.fn = "Torrent" THEN Torrent_init(v, out, o)
     ELSE IF caller.fn = "List"
     THEN Step(rest \o <<[caller EXCEPT !.pc = "peek",
                                         !.val = Append(@, v)]>>, out, o)
     ELSE IF caller.pc = "key"
     THEN Step(rest \o <<[caller EXCEPT !.pc = "value", !.key = v],
                         ParseFrame>>, out, o)
     ELSE Step(rest \o <<[caller EXCEPT !.pc = "peek",
                                         !.val = DictSet(@, caller.key, v),
                                         !.key = None]>>, out, o)

Decoding(fn, at) ==
  /\ pc = "load"
  /\ stack # <<>>
  /\ Top.fn = fn
  /\ Top.pc = at

----------------------------------------------------------------------------
(* The decoder's steps *)

\* Torrent.parse
ParsePeek ==
  /\ Decoding("parse", "peek")
  /\ LET out == peek(string, index)
         o == Op("peek", "parse", 0, "", out)
     IN IF out.exc # "none" THEN Raise(Exc(out.exc, out.n, ""), index, o)
        ELSE IF TypeOf(out.ret[1]) = ""
        THEN Raise(Exc("UnknownTypeChar", 0, out.ret[1]), index, o)
        ELSE Step(Below \o <<FirstFrame(TypeOf(out.ret[1]))>>, out, o)

\* String.__init__: self.length = int(string.get_upto(':'))
StringGetUpto ==
  /\ Decoding("String", "get_upto")
  /\ LET out == get_upto(string, index, ":")
         o == Op("get_upto", "String", 0, ":", out)
     IN IF out.exc # "none"
        THEN Raise(Exc(out.exc, 0, out.ch), out.index, o)
        ELSE IF ~PyIntOK(out.ret)
        THEN Raise(Exc("ValueError", 0, ""), out.index, o)
        ELSE Step(Below \o <<[Top EXCEPT !.pc = "get",
                                         !.val = PyInt(out.ret)]>>, out, o)

\* String.__init__: self.value = string.get(self.length), then is_printable
StringGet ==
  /\ Decoding("String", "get")
  /\ LET out == get(string, index, Top.val)
         o == Op("get", "String", Top.val, "", out)
     IN IF out.exc # "none" THEN Raise(Exc(out.exc, out.n, ""), out.index, o)
        ELSE Return(Below, StringNode(Top.val, out.ret, asciionly), out, o)

\* Integer.__init__: string.get(1)
IntegerGet ==
  /\ Decoding("Integer", "get")
  /\ LET out == get(string, index, 1)
         o == Op("get", "Integer", 1, "", out)
     IN IF out.exc # "none" THEN Raise(Exc(out.exc, out.n, ""), out.index, o)
        ELSE Step(Below \o <<[Top EXCEPT !.pc = "get_upto"]>>, out, o)

\* Integer.__init__: self.value = int(string.get_upto('e'))
IntegerGetUpto ==
  /\ Decoding("Integer", "get_upto")
  /\ LET out == get_upto(string, index, "e")
         o == Op("get_upto", "Integer", 0, "e", out)
     IN IF out.exc # "none"
        THEN Raise(Exc(out.exc, 0, out.ch), out.index, o)
        ELSE IF ~PyIntOK(out.ret)
        THEN Raise(Exc("ValueError", 0, ""), out.index, o)
        ELSE Return(Below, IntegerNode(PyInt(out.ret)), out, o)

\* Dictionary.__init__: string.get(1); self.value = {}
DictionaryGet ==
  /\ Decoding("Dictionary", "get")
  /\ LET out == get(string, index, 1)
         o == Op("get", "Dictionary", 1, "", out)
     IN IF out.exc # "none" THEN Raise(Exc(out.exc, out.n, ""), out.index, o)
        ELSE Step(Below \o <<[Top EXCEPT !.pc = "peek", !.val = <<>>]>>,
                  out, o)

\* Dictionary.__init__: while string.peek() != 'e': key = String(string)
DictionaryPeek ==
  /\ Decoding("Dictionary", "peek")
  /\ LET out == peek(string, index)
         o == Op("peek", "Dictionary", 0, "", out)
     IN IF out.exc # "none" THEN Raise(Exc(out.exc, out.n, ""), index, o)
        ELSE IF out.ret = <<"e">>
        THEN Step(Below \o <<[Top EXCEPT !.pc = "close"]>>, out, o)
        ELSE Step(Below \o <<[Top EXCEPT !.pc = "key"],
                             FirstFrame("String")>>, out, o)

\* Dictionary.__init__: the string.get(1) after the loop
DictionaryClose ==
  /\ Decoding("Dictionary", "close")
  /\ LET out == get(string, index, 1)
         o == Op("get", "Dictionary", 1, "", out)
     IN IF out.exc # "none" THEN Raise(Exc(out.exc, out.n, ""), out.index, o)
        ELSE Return(Below, DictionaryNode(Top.val), out, o)

\* List.__init__: string.get(1); self.value = []
ListGet ==
  /\ Decoding("List", "get")
  /\ LET out == get(string, index, 1)
         o == Op("get", "List", 1, "", out)
     IN IF out.exc # "none" THEN Raise(Exc(out.exc, out.n, ""), out.index, o)
        ELSE Step(Below \o <<[Top EXCEPT !.pc = "peek", !.val = <<>>]>>,
                  out, o)

\* List.__init__: while string.peek() != 'e': Torrent.parse(string)
ListPeek ==
  /\ Decoding("List", "peek")
  /\ LET out == peek(string, index)
         o == Op("peek", "List", 0, "", out)
     IN IF out.exc # "none" THEN Raise(Exc(out.exc, out.n, ""), index, o)
        ELSE IF out.ret = <<"e">>
        THEN Step(Below \o <<[Top EXCEPT !.pc = "close"]>>, out, o)
        ELSE Step(Below \o <<[Top EXCEPT !.pc = "item"], ParseFrame>>,
                  out, o)

\* List.__init__: the string.get(1) after the loop
ListClose ==
  /\ Decoding("List", "close")
  /\ LET out == get(string, index, 1)
         o == Op("get", "List", 1, "", out)
     IN IF out.exc # "none" THEN Raise(Exc(out.exc, out.n, ""), out.index, o)
        ELSE Return(Below, ListNode(Top.val), out, o)

----------------------------------------------------------------------------
(* Formatters.  A format_spec is the set of its tag bits; text is a        *)
(* sequence of pieces, each a byte or a literal of the source.             *)

\* ANSIColour.mapping
mapping ==
  <<<<"NORMAL", "[0m">>, <<"BRIGHT", "[1m">>, <<"DULL", "[22m">>,
    <<"WHITE", "[37m">>, <<"GREEN", "[32m">>, <<"CYAN", "[36m">>,
    <<"YELLOW", "[33m">>, <<"RED", "[31m">>, <<"MAGENTA", "[35m">>>>

\* ANSIColour.escape, chr(0x1b)
escape == "<1B>"

RECURSIVE codestring(_, _)
codestring(format_spec, k) ==
  IF k > Len(mapping) THEN <<>>
  ELSE (IF mapping[k][1] \in format_spec
        THEN <<escape, mapping[k][2]>> ELSE <<>>)
       \o codestring(format_spec, k + 1)

\* a formatter that writes the codes whatever the colour flag: C18 must tell
\* it apart
string_format_coloured(nocolour, format_spec, text) ==
  codestring(format_spec, 1) \o text

\* what formatter.string_format(format_spec, text) writes: get_formatter
\* gives TextFormatter when nocolour is set and ANSIColour otherwise
string_format(nocolour, format_spec, text) ==
  IF nocolour THEN text ELSE codestring(format_spec, 1) \o text

\* the text a sequence of string_format calls writes
RECURSIVE Written(_, _)
Written(nocolour, calls) ==
  IF calls = <<>> THEN <<>>
  ELSE string_format(nocolour, calls[1].spec, calls[1].text)
       \o Written(nocolour, Tail(calls))

Call(format_spec, text) == [spec |-> format_spec, text |-> text]

\* the result of a piece of a report: the string_format calls it made and
\* the exception that ended it, "none" when it returned
Did(calls, e) == [calls |-> calls, exc |-> e]

Then(a, b) == IF a.exc # "none" THEN a ELSE Did(a.calls \o b.calls, b.exc)

TAB_CHAR == <<"    ">>

RECURSIVE Times(_, _)
Times(text, n) == IF n <= 0 THEN <<>> ELSE text \o Times(text, n - 1)

----------------------------------------------------------------------------
(* dump *)

\* a String.dump that writes the value whatever its classification: C16
\* must tell it apart
String_dump_raw(node, tabchar, depth, newline) ==
  <<Call({}, Times(tabchar, depth) \o node.value
             \o (IF newline THEN <<"\n">> ELSE <<>>))>>

String_dump(node, tabchar, depth, newline) ==
  IF node.isprintable
  THEN <<Call({}, Times(tabchar, depth) \o node.value
                  \o (IF newline THEN <<"\n">> ELSE <<>>))>>
  ELSE <<Call({"BRIGHT", "RED"},
              Times(tabchar, depth) \o <<"[">> \o IntText(node.length)
                \o <<" UTF-8 Bytes]">>
                \o (IF newline THEN <<"\n">> ELSE <<>>))>>

Integer_dump(node, tabchar, depth) ==
  <<Call({"CYAN"}, Times(tabchar, depth) \o IntText(node.value) \o <<"\n">>)>>

\* time.strftime('%Y/%m/%d %H:%M:%S %Z\n', time.gmtime(value)) is the
\* library's; its text is kept as one piece naming the value
Integer_dump_as_date(node) ==
  <<Call({"MAGENTA"}, <<[strftime |-> node.value]>>)>>

\* a loop that keeps the last two units for itself: it stops at MB
RECURSIVE size_loop_mb(_, _, _)
size_loop_mb(num, den, sizes) ==
  IF Len(sizes) > 2 /\ num > 1024 * den
  THEN size_loop_mb(num, den * 1024, Tail(sizes))
  ELSE [den |-> den, sizes |-> sizes]

\* the loop of dump_as_size on size = num / den: the number of divisions
RECURSIVE size_loop(_, _, _)
size_loop(num, den, sizes) ==
  IF Len(sizes) > 1 /\ num > 1024 * den
  THEN size_loop(num, den * 1024, Tail(sizes))
  ELSE [den |-> den, sizes |-> sizes]

\* the binary exponent of num / den, for num >= den
RECURSIVE Log2(_, _)
Log2(num, den) ==
  IF num \div den < 2 THEN 0 ELSE 1 + Log2(num \div 2, den)

\* '%.1f' % (num / den + 0.05) in tenths, for num >= 0 and den a power of
\* 1024, in IEEE double arithmetic: when 10 * num / den is not an integer the
\* sum lies strictly between two tenths' midpoints and rounds to the tenth
\* above the quotient; when it is one, the sum is a midpoint in the reals and
\* the rounding of the double addition, which depends on the binary exponent
\* of the sum, decides.  The tenths of the remainder r are 10 * r / den,
\* computed as 5 * r / (den / 2) in two halves of r to stay within 32 bits.
tenths(num, den) ==
  LET q == num \div den
      r == num % den
      big == den >= 2048
      X == 5 * (r \div 1024) + (5 * (r % 1024)) \div 1024
      Y == (5 * (r % 1024)) % 1024
      c == den \div 2048
      frac == IF big THEN X \div c ELSE (10 * r) \div den
      exact == IF big THEN Y = 0 /\ X % c = 0 ELSE (10 * r) % den = 0
  IN IF ~exact THEN 10 * q + frac + 1
     ELSE IF num = 0 THEN 1
     ELSE IF Log2(num, den) % 4 \in {0, 3} THEN 10 * q + frac + 1
     ELSE 10 * q + frac

\* '%.1f' % (value + 0.05) for value < 0, where the loop divides nothing:
\* the sum is the midpoint of -(m - 1).9 and -m.0 for m = -value, and the
\* binary exponent of m - 0.05 decides
negative_size(m) ==
  LET e == IF \E k \in 0..30 : m = 2 ^ k THEN Log2(m, 1) - 1 ELSE Log2(m, 1)
  IN IF e % 4 \in {1, 2} THEN <<"-">> \o NatText(m) \o <<".", "0">>
     ELSE <<"-">> \o NatText(m - 1) \o <<".", "9">>

Integer_dump_as_size(node, tabchar, depth) ==
  LET l == size_loop(node.value, 1, <<"B", "KB", "MB", "GB">>)
      t == tenths(node.value, l.den)
  IN IF node.value < 0
     THEN <<Call({"CYAN"},
                 Times(tabchar, depth) \o negative_size(0 - node.value)
                   \o <<"B", "\n">>)>>
     ELSE <<Call({"CYAN"},
                 Times(tabchar, depth) \o IntText(t \div 10) \o <<".">>
                   \o IntText(t % 10) \o <<l.sizes[1], "\n">>)>>

\* dump_as_size of the Integer 1024 * kib for kib > 1, a value that the 32
\* bits of the integers here cannot hold: the first test of the loop
\* succeeds and its division leaves size = kib exactly (a double holds
\* 1024 * kib), with the units from KB on; the loop goes on from there
Integer_dump_as_size_kib(kib, tabchar, depth) ==
  LET l == size_loop(kib, 1, <<"KB", "MB", "GB">>)
      t == tenths(kib, l.den)
  IN [calls |-> <<Call({"CYAN"},
                       Times(tabchar, depth) \o IntText(t \div 10) \o <<".">>
                         \o IntText(t % 10) \o <<l.sizes[1], "\n">>)>>,
      divisions |-> 4 - Len(l.sizes)]

\* keys.sort(): the position of entry k among the entries, by String.__cmp__
\* (the order of Python's str: shorter prefix first, then byte order)
RECURSIVE ByteLess(_, _)
ByteOrder ==
  <<"\t", "\n", "\r", " ", "!", "\"", "#", "$", "%", "&", "'", "(", ")",
    "*", "+", ",", "-", ".", "/",
    "0", "1", "2", "3", "4", "5", "6", "7", "8", "9",
    ":", ";", "<", "=", ">", "?", "@",
    "A", "B", "C", "D", "E", "F", "G", "H", "I", "J", "K", "L", "M",
    "N", "O", "P", "Q", "R", "S", "T", "U", "V", "W", "X", "Y", "Z",
    "[", "\\", "]", "^", "_",
    "a", "b", "c", "d", "e", "f", "g", "h", "i", "j", "k", "l", "m",
    "n", "o", "p", "q", "r", "s", "t", "u", "v", "w", "x", "y", "z",
    "{", "|", "}", "~">>

Ord(c) == CHOOSE k \in 1..Len(ByteOrder) : ByteOrder[k] = c

ByteLess(a, b) ==
  IF a = <<>> THEN b # <<>>
  ELSE IF b = <<>> THEN FALSE
  ELSE IF a[1] = b[1] THEN ByteLess(Tail(a), Tail(b))
  ELSE Ord(a[1]) < Ord(b[1])

\* the keys left in the order of their insertion: C12 must tell it apart
sorted_keys_inserted(entries) == [r \in 1..Len(entries) |-> r]

sorted_keys(entries) ==
  [r \in 1..Len(entries) |->
     CHOOSE k \in 1..Len(entries) :
       Cardinality({j \in 1..Len(entries) :
                      ByteLess(entries[j].key.value, entries[k].key.value)})
         = r - 1]

RECURSIVE Node_dump(_, _, _)
RECURSIVE Dictionary_dump_keys(_, _, _, _)
RECURSIVE List_dump_items(_, _, _, _)

\* the body of the loop of Dictionary.dump for the keys from position r on
Dictionary_dump_keys(node, tabchar, depth, r) ==
  IF r > Len(node.value) THEN <<>>
  ELSE LET entry == node.value[sorted_keys(node.value)[r]]
       IN <<Call({"NORMAL", "GREEN"}, <<>>)>>
          \o (IF depth < 2 THEN <<Call({"BRIGHT"}, <<>>)>> ELSE <<>>)
          \o String_dump(entry.key, tabchar, depth, TRUE)
          \o <<Call({"NORMAL"}, <<>>)>>
          \o Node_dump(entry.val, tabchar, depth + 1)
          \o Dictionary_dump_keys(node, tabchar, depth, r + 1)

\* the loop of List.dump from index k on
List_dump_items(node, tabchar, depth, k) ==
  IF k >= Len(node.value) THEN <<>>
  ELSE <<Call({"BRIGHT", "YELLOW"},
              Times(tabchar, depth) \o IntText(k) \o <<"\n">>),
         Call({"NORMAL"}, <<>>)>>
       \o Node_dump(node.value[k + 1], tabchar, depth + 1)
       \o List_dump_items(node, tabchar, depth, k + 1)

\* a List.dump that writes the index line of a single item too: C13 must
\* tell it apart
List_dump_indexed(node, tabchar, depth) ==
  List_dump_items(node, tabchar, depth, 0)

List_dump(node, tabchar, depth) ==
  IF Len(node.value) = 1 THEN Node_dump(node.value[1], tabchar, depth)
  ELSE List_dump_items(node, tabchar, depth, 0)

\* value.dump(formatter, tabchar, depth), by the class of the value
Node_dump(node, tabchar, depth) ==
  IF node.type = "String" THEN String_dump(node, tabchar, depth, TRUE)
  ELSE IF node.type = "Integer" THEN Integer_dump(node, tabchar, depth)
  ELSE IF node.type = "List" THEN List_dump(node, tabchar, depth)
  ELSE Dictionary_dump_keys(node, tabchar, depth, 1)

----------------------------------------------------------------------------
(* The report functions.  The classes are old-style Python 2 classes: an   *)
(* operation a class does not define raises, and nothing in main catches   *)
(* it.                                                                     *)

Bytes_info == <<"i", "n", "f", "o">>
Bytes_name == <<"n", "a", "m", "e">>
Bytes_files == <<"f", "i", "l", "e", "s">>
Bytes_length == <<"l", "e", "n", "g", "t", "h">>
Bytes_path == <<"p", "a", "t", "h">>
Bytes_announce == <<"a", "n", "n", "o", "u", "n", "c", "e">>
Bytes_created_by == <<"c", "r", "e", "a", "t", "e", "d", " ", "b", "y">>
Bytes_creation_date ==
  <<"c", "r", "e", "a", "t", "i", "o", "n", " ", "d", "a", "t", "e">>

\* key in t: "yes", "no" or the exception.  A List is searched through its
\* __iter__, and comparing the key with a String element calls
\* String.__cmp__ on a str, which has no attribute value
Contains(t, name) ==
  IF t.type = "Dictionary"
  THEN (IF Dictionary_contains(t, name) THEN "yes" ELSE "no")
  ELSE IF t.type = "List"
  THEN (IF \E k \in 1..Len(t.value) : t.value[k].type = "String"
        THEN "AttributeError" ELSE "no")
  ELSE "TypeError"

Value(v) == [exc |-> "none", val |-> v]

Raised(e) == [exc |-> e, val |-> None]

\* t[key] for a str key
Item(t, name) ==
  IF t.type = "Dictionary"
  THEN (IF Dictionary_contains(t, name)
        THEN Value(Dictionary_getitem(t, name)) ELSE Raised("KeyError"))
  ELSE IF t.type = "List" THEN Raised("TypeError")
  ELSE Raised("AttributeError")

start_line(prefix, depth, postfix, format_spec) ==
  <<Call({"BRIGHT", "GREEN"}, Times(TAB_CHAR, depth) \o prefix),
    Call(format_spec, TAB_CHAR \o postfix)>>

get_line(prefix, key, t, is_date) ==
  Then(Did(start_line(prefix, 1, <<>>, {"NORMAL"}), "none"),
       LET c == Contains(t, key)
           v == Item(t, key).val
       IN IF c = "yes"
          THEN (IF is_date
                THEN (IF v.type = "Integer"
                      THEN Did(Integer_dump_as_date(v), "none")
                      ELSE Did(<<Call({"BRIGHT", "RED"},
                                      <<"[Not An Integer]">>)>>, "none"))
                ELSE Did(Node_dump(v, <<>>, 0), "none"))
          ELSE IF c = "no" THEN Did(<<Call({"NORMAL"}, <<"\n">>)>>, "none")
          ELSE Did(<<>>, c))

\* x.dump_as_size(formatter, tabchar, depth): only Integer has it
dump_as_size(x, tabchar, depth) ==
  IF x.exc # "none" THEN Did(<<>>, x.exc)
  ELSE IF x.val.type # "Integer" THEN Did(<<>>, "AttributeError")
  ELSE Did(Integer_dump_as_size(x.val, tabchar, depth), "none")

\* sys.exit('Missing "info" section in %s' % torrent.filename)
MissingInfo(f) == <<"Missing \"info\" section in ", f>>

HasInfo(t) == Dictionary_contains(t.value, Bytes_info)

dump(t) == Did(Node_dump(t.value, TAB_CHAR, 1), "none")

basic(t) ==
  IF ~HasInfo(t) THEN Did(<<>>, "SystemExit")
  ELSE Then(get_line(<<"name       ">>, Bytes_name,
                     Dictionary_getitem(t.value, Bytes_info), FALSE),
       Then(get_line(<<"tracker url">>, Bytes_announce, t.value, FALSE),
       Then(get_line(<<"created by ">>, Bytes_created_by, t.value, FALSE),
            get_line(<<"created on ">>, Bytes_creation_date, t.value, TRUE))))

top(t) ==
  IF ~HasInfo(t) THEN Did(<<>>, "SystemExit")
  ELSE LET n == Item(Dictionary_getitem(t.value, Bytes_info), Bytes_name)
       IN IF n.exc # "none" THEN Did(<<>>, n.exc)
          ELSE IF n.val.type # "String" THEN Did(<<>>, "TypeError")
          ELSE Did(String_dump(n.val, <<>>, 1, FALSE), "none")

\* a variant of + that returns its left operand
Add_left(x, y, ascii) == x

\* Integer.__add__ and String.__add__ build the result by decoding its
\* bencoded text; any other pair of operands raises
Add(x, y, ascii) ==
  IF x.exc # "none" THEN x
  ELSE IF x.val.type = "Integer" /\ y.type = "Integer"
  THEN Value(IntegerNode(PyInt(IntText(x.val.value + y.value))))
  ELSE IF x.val.type = "String" /\ y.type = "String"
  THEN Value(StringNode(PyInt(NatText(Len(x.val.value \o y.value))),
                        x.val.value \o y.value, ascii))
  ELSE Raised("TypeError")

\* [filetorrent['length'] for filetorrent in filestorrent] from position k
\* on, then reduce(lambda x, y: x + y, lengths) with acc the sum so far
RECURSIVE sum_lengths(_, _, _, _)
sum_lengths(files, k, acc, ascii) ==
  IF k > Len(files) THEN acc
  ELSE LET l == Item(files[k], Bytes_length)
       IN IF l.exc # "none" THEN l
          ELSE sum_lengths(files, k + 1,
                           IF k = 1 THEN l ELSE Add(acc, l.val, ascii), ascii)

\* the comprehension raises before reduce adds anything
lengths_exc(files) ==
  IF \E k \in 1..Len(files) : Item(files[k], Bytes_length).exc # "none"
  THEN Item(files[CHOOSE k \in 1..Len(files) :
                    /\ Item(files[k], Bytes_length).exc # "none"
                    /\ \A j \in 1..(k - 1) :
                         Item(files[j], Bytes_length).exc = "none"],
            Bytes_length).exc
  ELSE "none"

basic_files(t, ascii) ==
  IF ~HasInfo(t) THEN Did(<<>>, "SystemExit")
  ELSE
  LET info == Dictionary_getitem(t.value, Bytes_info)
      c == Contains(info, Bytes_files)
      filestorrent == Item(info, Bytes_files).val
  IN IF c = "no"
     THEN Then(get_line(<<"file name  ">>, Bytes_name, info, FALSE),
          Then(Did(start_line(<<"file size  ">>, 1, <<>>, {"NORMAL"}), "none"),
               dump_as_size(Item(info, Bytes_length), <<>>, 0)))
     ELSE IF c # "yes" THEN Did(<<>>, c)
     ELSE IF filestorrent.type # "List" THEN Did(<<>>, "AttributeError")
     ELSE IF Len(filestorrent.value) > 1
     THEN Then(Did(start_line(<<"num files  ">>, 1,
                              IntText(Len(filestorrent.value)) \o <<"\n">>,
                              {"NORMAL"}), "none"),
          IF lengths_exc(filestorrent.value) # "none"
          THEN Did(<<>>, lengths_exc(filestorrent.value))
          ELSE Then(Did(start_line(<<"total size ">>, 1, <<>>, {"NORMAL"}),
                        "none"),
                    dump_as_size(sum_lengths(filestorrent.value, 1,
                                             Raised("TypeError"), ascii),
                                 <<>>, 0)))
     ELSE IF Len(filestorrent.value) = 0 THEN Did(<<>>, "IndexError")
     ELSE Then(get_line(<<"file name  ">>, Bytes_path,
                        filestorrent.value[1], FALSE),
          Then(Did(start_line(<<"file size  ">>, 1, <<>>, {"NORMAL"}), "none"),
               dump_as_size(Item(filestorrent.value[1], Bytes_length),
                            <<>>, 0)))


\* List.join: reduce(lambda x, y: x + separator + y, self.value) from
\* position k on, with acc the value so far
RECURSIVE join_loop(_, _, _, _)
join_loop(items, k, acc, ascii) ==
  IF k > Len(items) THEN acc
  ELSE join_loop(items, k + 1,
                 Add(Add(acc, StringNode(PyInt(NatText(1)), <<sep>>, ascii),
                         ascii),
                     items[k], ascii),
                 ascii)

\* x.join(os.path.sep): only List has it, and reduce of an empty list raises
join(x, ascii) ==
  IF x.type # "List" THEN Raised("AttributeError")
  ELSE IF x.value = <<>> THEN Raised("TypeError")
  ELSE join_loop(x.value, 2, Value(x.value[1]), ascii)

\* the loop of list_files over filestorrent from index k on
RECURSIVE list_files_loop(_, _, _)
list_files_loop(files, k, ascii) ==
  IF k >= Len(files) THEN Did(<<>>, "none")
  ELSE
  LET p == Item(files[k + 1], Bytes_path)
      j == join(p.val, ascii)
  IN Then(Did(<<Call({"YELLOW", "BRIGHT"},
                     Times(TAB_CHAR, 2) \o IntText(k)),
                Call({"NORMAL"}, <<"\n">>)>>, "none"),
     Then(IF p.exc # "none" THEN Did(<<>>, p.exc)
          ELSE IF p.val.type = "String"
          THEN Did(String_dump(p.val, TAB_CHAR, 3, TRUE), "none")
          ELSE IF j.exc # "none" THEN Did(<<>>, j.exc)
          ELSE Did(Node_dump(j.val, TAB_CHAR, 3), "none"),
     Then(dump_as_size(Item(files[k + 1], Bytes_length), TAB_CHAR, 3),
          list_files_loop(files, k + 1, ascii))))

\* a list_files that writes its first line before it looks for 'info': C17
\* must tell it apart
list_files_late(t, ascii) ==
  Then(Did(start_line(<<"files">>, 1, <<"\n">>, {"NORMAL"}), "none"),
       IF ~HasInfo(t) THEN Did(<<>>, "SystemExit") ELSE Did(<<>>, "none"))

list_files(t, ascii) ==
  IF ~HasInfo(t) THEN Did(<<>>, "SystemExit")
  ELSE
  LET info == Dictionary_getitem(t.value, Bytes_info)
      c == Contains(info, Bytes_files)
      filestorrent == Item(info, Bytes_files).val
      n == Item(info, Bytes_name)
  IN Then(Did(start_line(<<"files">>, 1, <<"\n">>, {"NORMAL"}), "none"),
     IF c = "no"
     THEN Then(Did(<<Call({"YELLOW", "BRIGHT"},
                          Times(TAB_CHAR, 2) \o IntText(0)),
                     Call({"NORMAL"}, <<"\n">>)>>, "none"),
          Then(IF n.exc # "none" THEN Did(<<>>, n.exc)
               ELSE Did(Node_dump(n.val, TAB_CHAR, 3), "none"),
               dump_as_size(Item(info, Bytes_length), TAB_CHAR, 3)))
     ELSE IF c # "yes" THEN Did(<<>>, c)
     ELSE IF filestorrent.type # "List" THEN Did(<<>>, "AttributeError")
     ELSE list_files_loop(filestorrent.value, 0, ascii))

----------------------------------------------------------------------------
(* main *)

Options == {"nocolour", "dump", "basic", "top", "files", "ascii"}

\* a main that looks for files before dump
report_files_first(t, modes, ascii) ==
  Then(Did(<<Call({"BRIGHT"}, basename(t.filename) \o <<"\n">>)>>, "none"),
  Then(IF modes # {} /\ "basic" \notin modes
       THEN (IF "files" \in modes
             THEN Then(basic(t), list_files(t, ascii))
             ELSE IF "dump" \in modes THEN dump(t)
             ELSE IF "top" \in modes THEN top(t)
             ELSE Did(<<>>, "none"))
       ELSE Then(basic(t), basic_files(t, ascii)),
       Did(<<Call({"NORMAL"}, <<"\n">>)>>, "none")))

\* the report main makes for one loaded torrent: settings is what is left
\* of the options once nocolour and ascii are deleted
report(t, modes, ascii) ==
  Then(Did(<<Call({"BRIGHT"}, basename(t.filename) \o <<"\n">>)>>, "none"),
  Then(IF modes # {} /\ "basic" \notin modes
       THEN (IF "dump" \in modes THEN dump(t)
             ELSE IF "files" \in modes
             THEN Then(basic(t), list_files(t, ascii))
             ELSE IF "top" \in modes THEN top(t)
             ELSE Did(<<>>, "none"))
       ELSE Then(basic(t), basic_files(t, ascii)),
       Did(<<Call({"NORMAL"}, <<"\n">>)>>, "none")))

\* a main whose loop goes on after SystemExit: C2 (amended) must tell it apart
AfterReport_continue(e) ==
  IF e \in {"none", "SystemExit"} THEN "loop" ELSE "crashed"

\* where main is after an exception left the report of a file: SystemExit
\* is caught outside the loop and main exits with its message, anything
\* else is not caught
AfterReport(e) ==
  IF e = "none" THEN "loop"
  ELSE IF e = "SystemExit" THEN "exited"
  ELSE "crashed"

\* for filename in filenames: torrent = Torrent.load_torrent(filename)
LoadTorrent ==
  /\ pc = "loop"
  /\ fileno <= Len(filenames)
  /\ IF filename \in DOMAIN disk
     THEN /\ string' = disk[filename]
          /\ index' = 0
          /\ stack' = <<Frame("Torrent", "parse", <<>>, None), ParseFrame>>
          /\ pc' = "load"
          /\ exc' = NoExc
          /\ op' = NoOp
          /\ torrent' = NoTorrent
          /\ UNCHANGED <<revision, filenames, disk, settings, asciionly,
                         fileno, stdout, stderr>>
     ELSE /\ exc' = Exc("IOError", 0, "")
          /\ stderr' = Append(stderr, Traceback(Exc("IOError", 0, "")))
          /\ pc' = "crashed"
          /\ torrent' = NoTorrent
          /\ UNCHANGED <<revision, filenames, disk, settings, asciionly,
                         fileno, string, index, stack, stdout, op>>

\* the rest of the loop body for a loaded torrent
Report ==
  /\ pc = "report"
  /\ LET r == report(torrent, settings \ {"nocolour", "ascii"}, asciionly)
     IN /\ stdout' = stdout \o Written("nocolour" \in settings, r.calls)
        /\ exc' = Exc(r.exc, 0, "")
        /\ pc' = AfterReport(r.exc)
        /\ fileno' = IF AfterReport(r.exc) = "loop" THEN fileno + 1 ELSE fileno
        /\ stderr' = IF r.exc = "none" THEN stderr
                     ELSE IF r.exc = "SystemExit"
                     THEN Append(stderr, MissingInfo(PathText(torrent.filename)))
                     ELSE Append(stderr, Traceback(Exc(r.exc, 0, "")))
  /\ UNCHANGED <<revision, filenames, disk, settings, asciionly, string,
                 index, stack, torrent, op>>

\* the loop has run out of files and main returns
MainReturn ==
  /\ pc = "loop"
  /\ fileno > Len(filenames)
  /\ pc' = "done"
  /\ UNCHANGED <<revision, filenames, disk, settings, asciionly, fileno,
                 string, index, stack, torrent, exc, stdout, stderr, op>>

Next ==
  \/ LoadTorrent
  \/ ParsePeek
  \/ StringGetUpto
  \/ StringGet
  \/ IntegerGet
  \/ IntegerGetUpto
  \/ DictionaryGet
  \/ DictionaryPeek
  \/ DictionaryClose
  \/ ListGet
  \/ ListPeek
  \/ ListClose
  \/ Report
  \/ MainReturn

----------------------------------------------------------------------------
(* The files of a batch *)

\* 'd8:announce1:t4:infod6:lengthi1048576e4:name8:file.txtee'
File_single ==
  <<"d", "8", ":", "a", "n", "n", "o", "u", "n", "c", "e", "1", ":", "t",
    "4", ":", "i", "n", "f", "o", "d", "6", ":", "l", "e", "n", "g", "t",
    "h", "i", "1", "0", "4", "8", "5", "7", "6", "e", "4", ":", "n", "a",
    "m", "e", "8", ":", "f", "i", "l", "e", ".", "t", "x", "t", "e", "e">>

\* 'd8:announce1:te'
File_missing_info ==
  <<"d", "8", ":", "a", "n", "n", "o", "u", "n", "c", "e", "1", ":", "t",
    "e">>

\* 'd8:announcex7:invalid'
File_unknown_type ==
  <<"d", "8", ":", "a", "n", "n", "o", "u", "n", "c", "e", "x", "7", ":",
    "i", "n", "v", "a", "l", "i", "d">>

\* 'd20:announce'
File_overrun ==
  <<"d", "2", "0", ":", "a", "n", "n", "o", "u", "n", "c", "e">>

\* '4:fake'
File_fake ==
  <<"4", ":", "f", "a", "k", "e">>

\* 'l1:ae'
File_list ==
  <<"l", "1", ":", "a", "e">>

\* 'd-9:1'
File_negative == <<"d", "-", "9", ":", "1">>

\* 'd-5:abcd'
File_wrap == <<"d", "-", "5", ":", "a", "b", "c", "d">>

\* 'd-8:1:'
File_truncated == <<"d", "-", "8", ":", "1", ":">>

\* 'd-7:i1e': the key '-7:' takes the cursor from 4 back to -3, which is
\* the 'i' counted from the end
File_integer_wrap == <<"d", "-", "7", ":", "i", "1", "e">>

Disk ==
  (<<"single.torrent">> :> File_single)
  @@ (<<"test", "files", "missing_info.torrent">> :> File_missing_info)
  @@ (<<"unknown.torrent">> :> File_unknown_type)
  @@ (<<"overrun.torrent">> :> File_overrun)
  @@ (<<"fake.torrent">> :> File_fake)
  @@ (<<"list.torrent">> :> File_list)
  @@ (<<"negative.torrent">> :> File_negative)
  @@ (<<"wrap.torrent">> :> File_wrap)
  @@ (<<"truncated.torrent">> :> File_truncated)
  @@ (<<"integer_wrap.torrent">> :> File_integer_wrap)

\* the names main can be given: the files on the disk and one that is not
FileNames == DOMAIN Disk \cup {<<"fakefoobar.fake">>}

Batches == UNION {[1..n -> FileNames] : n \in 1..MaxFiles}

\* the bytes of the exhaustive decode specification
Alphabet == {"d", "l", "i", "e", ":", "-", "0", "1", "9", "x"}

Buffers == UNION {[1..n -> Alphabet] : n \in 0..MaxLen}

InitMain ==
  /\ fileno = 1
  /\ pc = "loop"
  /\ string = <<>>
  /\ index = 0
  /\ stack = <<>>
  /\ torrent = NoTorrent
  /\ exc = NoExc
  /\ stdout = <<>>
  /\ stderr = <<>>
  /\ op = NoOp
  /\ asciionly = ("ascii" \in settings)

\* main on a batch of files, after the options are read
Init ==
  /\ revision = "src/src/torrentinfo.py"
  /\ filenames \in Batches
  /\ disk = Disk
  /\ settings \in SUBSET Options
  /\ InitMain

Spec == Init /\ [][Next]_vars

\* main on one file, holding any buffer over the alphabet
InitDecode ==
  /\ revision = "src/src/torrentinfo.py"
  /\ filenames = <<<<"buffer">>>>
  /\ \E b \in Buffers : disk = (<<"buffer">> :> b)
  /\ settings = {}
  /\ InitMain

SpecDecode == InitDecode /\ [][Next]_vars

\* the same batches with the copy of the program at src/torrentinfo.py
InitLegacy ==
  /\ revision = "src/torrentinfo.py"
  /\ filenames \in Batches
  /\ disk = Disk
  /\ settings \in SUBSET Options
  /\ InitMain

SpecLegacy == InitLegacy /\ [][Next]_vars

\* 'd0:0:-5:': the key '-5:' takes the cursor from 8 back to 3, the value
\* '0:' ends at 5, where the key '-5:' starts
File_loop == <<"d", "0", ":", "0", ":", "-", "5", ":">>

\* a cursor operation of the decoder and what its constructor does with it
DecodeStep ==
  \/ ParsePeek
  \/ StringGetUpto
  \/ StringGet
  \/ IntegerGet
  \/ IntegerGetUpto
  \/ DictionaryGet
  \/ DictionaryPeek
  \/ DictionaryClose
  \/ ListGet
  \/ ListPeek
  \/ ListClose

\* 'de', 'le', 'i1e', 'd1:xli0eee', 'd-9:1' and 'd0:0:-5:'
ShortFiles ==
  {<<"d", "e">>, <<"l", "e">>, <<"i", "1", "e">>,
   <<"d", "1", ":", "x", "l", "i", "0", "e", "e", "e">>,
   File_negative, File_loop}

\* main on one short file; the interpreter does not stop by itself inside
\* Torrent.load_torrent: the decoder's next step is taken
InitTerminate ==
  /\ revision = "src/src/torrentinfo.py"
  /\ filenames = <<<<"buffer">>>>
  /\ \E b \in ShortFiles : disk = (<<"buffer">> :> b)
  /\ settings \in SUBSET Options
  /\ InitMain

SpecTerminate == InitTerminate /\ [][Next]_vars /\ WF_vars(DecodeStep)

----------------------------------------------------------------------------
(* Claims *)

DecoderErrors ==
  {"BufferOverrun", "CharacterExpected", "UnknownTypeChar", "ValueError"}

\* C1 (as claimed): a decoder error raised while loading a file is caught at
\* that file's boundary, the diagnostic for the file is the last thing on the
\* error stream, and the loop goes on (main has not been left)
C1_DecoderErrorCaught ==
  exc.name \in DecoderErrors =>
    /\ pc # "crashed"
    /\ stderr # <<>>
    /\ stderr[Len(stderr)] = CouldNotParse(PathText(filenames[fileno - 1]))

\* C2 (as claimed): when the report of a file stops for a missing 'info' key,
\* main does not stop while files follow that file in the batch
C2_BatchContinues ==
  (exc.name = "SystemExit" /\ fileno < Len(filenames)) => pc # "exited"

\* the mode main picks is dump, the one report that does not look for 'info'
DumpMode ==
  LET modes == settings \ {"nocolour", "ascii"}
  IN modes # {} /\ "basic" \notin modes /\ "dump" \in modes

\* C2 (amended): the report of a torrent that has no 'info' key, in every
\* mode but dump, writes the line of the file name and nothing more, and main
\* exits with the message 'Missing "info" section in <filename>' without
\* going to the next file; once main has exited nothing more happens.  In
\* dump mode the torrent is dumped and the loop goes to the next file.
C2_MissingInfoExits ==
  [][/\ pc # "exited"
     /\ (pc = "report" /\ ~HasInfo(torrent) /\ ~DumpMode) =>
          /\ pc' = "exited"
          /\ fileno' = fileno
          /\ stdout' = stdout
               \o string_format("nocolour" \in settings, {"BRIGHT"},
                                basename(torrent.filename) \o <<"\n">>)
          /\ stderr' = Append(stderr, MissingInfo(PathText(torrent.filename)))
     /\ (pc = "report" /\ ~HasInfo(torrent) /\ DumpMode) =>
          /\ pc' = "loop"
          /\ fileno' = fileno + 1]_vars

\* main has exited for a missing 'info' key with a file of the batch left
C2_Witness ==
  /\ pc = "exited"
  /\ ~HasInfo(torrent)
  /\ fileno < Len(filenames)

\* C3 (as claimed): when the decoded root value is not a Dictionary the
\* construction fails with UnexpectedType, and a Dictionary root does not
\* fail the construction
C3_UnexpectedType ==
  /\ torrent.value.type \notin {"None", "Dictionary"} =>
       exc.name = "UnexpectedType"
  /\ torrent.value.type = "Dictionary" =>
       exc.name \notin {"UnexpectedType", "NameError"}

\* the bytes of the buffer from the position of the cursor to its end
Remaining(i) == Len(PySlice(string, i, Len(string)))

\* C4 (as claimed): a byte-string production that declares more bytes than
\* remain after the ':' fails with BufferOverrun, and no byte-string
\* production returns a String of fewer bytes than it declares
C4_DeclaredLengthOverrun ==
  (op.name = "get" /\ op.by = "String") =>
    /\ op.n > Remaining(op.index0) =>
         /\ op.out.exc = "BufferOverrun"
         /\ exc.name = "BufferOverrun"
    /\ op.out.exc = "none" => Len(op.out.ret) >= op.n

TypeChars == {"d", "l", "i"} \cup Digits

\* C5: when Torrent.parse finds a next byte that is none of 'd', 'l', 'i',
\* '0'-'9', it fails with UnknownTypeChar carrying that byte
C5_UnknownTypeChar ==
  (op.name = "peek" /\ op.by = "parse" /\ op.out.exc = "none"
     /\ op.out.ret[1] \notin TypeChars) =>
    /\ exc.name = "UnknownTypeChar"
    /\ exc.ch = op.out.ret[1]
    /\ stack = <<>>

\* Torrent.parse, entered for a nested value, found a byte of no type
C5_Witness ==
  /\ op.name = "peek"
  /\ op.by = "parse"
  /\ op.index0 > 0
  /\ exc.name = "UnknownTypeChar"
  /\ exc.ch = "x"

\* the buffer starts with the byte-string production of n bytes
StartsWithString(n) ==
  /\ Len(string) >= Len(NatText(n)) + 1 + n
  /\ SubSeq(string, 1, Len(NatText(n)) + 1) = NatText(n) \o <<":">>

\* C6: decoding a buffer that starts with '<n>:<b>', b of n bytes, whatever
\* follows, returns a String of value b and length n and leaves the cursor
\* right after b
C6_StringRoundTrip ==
  \A n \in 0..MaxLen :
    (pc # "load" /\ StartsWithString(n)) =>
      /\ torrent.value.type = "String"
      /\ torrent.value.length = n
      /\ torrent.value.value =
           SubSeq(string, Len(NatText(n)) + 2, Len(NatText(n)) + 1 + n)
      /\ index = Len(NatText(n)) + 1 + n

\* a one-byte string was decoded from a buffer that goes on after it
C6_Witness ==
  /\ pc # "load"
  /\ StartsWithString(1)
  /\ torrent.value.type = "String"
  /\ torrent.value.value = <<string[3]>>
  /\ index < Len(string)

\* C7 (as claimed): 0 <= index <= len(string) in every state of a decode
C7_CursorInvariant == 0 <= index /\ index <= Len(string)

\* C8 (as claimed): get(n) with n greater than the bytes remaining raises
\* BufferOverrun with the shortfall and leaves index; otherwise it returns
\* exactly the next n bytes and advances index by n
C8_GetContract ==
  op.name = "get" =>
    IF op.n > Len(string) - op.index0
    THEN /\ op.out.exc = "BufferOverrun"
         /\ op.out.n = op.n - (Len(string) - op.index0)
         /\ index = op.index0
    ELSE /\ op.out.exc = "none"
         /\ Len(op.out.ret) = op.n
         /\ op.index0 >= 0 =>
              op.out.ret = SubSeq(string, op.index0 + 1, op.index0 + op.n)
         /\ index = op.index0 + op.n

\* the first position at or after position from that holds byte c, or -1
FirstAt(c, from) ==
  LET occ == {j \in from..(Len(string) - 1) : string[j + 1] = c}
  IN IF occ = {} THEN 0 - 1
     ELSE CHOOSE j \in occ : \A k \in occ : j <= k

\* C9 (as claimed): get_upto(c) returns the unconsumed bytes before the
\* first c at or after index and leaves index just past that c; without a c
\* in the unconsumed part it raises CharacterExpected
C9_GetUptoContract ==
  op.name = "get_upto" =>
    LET from == IF op.index0 < 0 THEN 0 ELSE op.index0
        j == FirstAt(op.ch, from)
    IN IF j < 0 THEN op.out.exc = "CharacterExpected"
       ELSE /\ op.out.exc = "none"
            /\ op.out.ret = SubSeq(string, from + 1, j)
            /\ op.out.index = j + 1

\* C10 (as claimed): peek returns the byte at index when bytes remain and
\* raises BufferOverrun exactly when is_eof() is true; index stays
C10_PeekContract ==
  op.name = "peek" =>
    /\ index = op.index0
    /\ IF op.index0 >= Len(string) THEN op.out.exc = "BufferOverrun"
       ELSE /\ op.out.exc = "none"
            /\ op.index0 >= 0 => op.out.ret = <<string[op.index0 + 1]>>

----------------------------------------------------------------------------
(* The rendering functions, each called once on arguments drawn from the   *)
(* sets below with a formatter get_formatter made.  op records the call    *)
(* and what it did, stdout holds what the formatter wrote.                 *)

Applied(name, args, out) == [name |-> name, args |-> args, out |-> out]

\* the text of the calls, as TextFormatter writes it
Text(calls) == Written(TRUE, calls)

\* a call that made the string_format calls and ended with exception e
Render(o, calls, e) ==
  /\ pc = "call"
  /\ pc' = IF e = "none" THEN "returned" ELSE "raised"
  /\ op' = o
  /\ stdout' = Written("nocolour" \in settings, calls)
  /\ exc' = Exc(e, 0, "")
  /\ UNCHANGED <<revision, filenames, disk, settings, asciionly, fileno,
                 string, index, stack, torrent, stderr>>

Tabchars == {<<>>, TAB_CHAR}

Depths == 0..MaxDepth

\* byte counts around the powers of 1024
Sizes ==
  {0, 1, 2, 512, 1023, 1024, 1025, 1536, 2047, 2048, 22630,
   1048575, 1048576, 1048577, 2097152, 3145728,
   1073741823, 1073741824, 1073741825, 2147483647,
   0 - 1, 0 - 2, 0 - 3, 0 - 5, 0 - 1024}

\* Integer.dump_as_size(formatter, tabchar, depth)
DumpAsSize ==
  /\ pc = "call"
  /\ \E value \in Sizes, tabchar \in Tabchars, depth \in Depths :
       LET calls == Integer_dump_as_size(IntegerNode(value), tabchar, depth)
       IN Render(Applied("Integer.dump_as_size",
                         [value |-> value, tabchar |-> tabchar, depth |-> depth],
                         calls),
                 calls, "none")

\* counts of 1024 bytes around 1024 MB and 1024 GB
KibSizes ==
  {2, 1024, 1025, 1048576, 1048577, 1572864, 1073741823, 1073741824,
   1073741825, 1610612736, 2147483647}

\* Integer.dump_as_size(formatter, tabchar, depth) on the Integer 1024 * kib
DumpAsSizeKib ==
  /\ pc = "call"
  /\ \E kib \in KibSizes, tabchar \in Tabchars, depth \in Depths :
       LET out == Integer_dump_as_size_kib(kib, tabchar, depth)
       IN Render(Applied("Integer.dump_as_size on 1024 * kib",
                         [kib |-> kib, tabchar |-> tabchar, depth |-> depth],
                         out),
                 out.calls, "none")

\* the keys of the dictionaries that are dumped
KeyValues == {<<"a", "a", "a">>, <<"b", "b", "a">>, <<"a">>, <<"B">>}

\* a String as String.__init__ makes it from '<len>:<value>'
DecodedString(value) == StringNode(Len(value), value, asciionly)

\* Dictionary.__init__ on the pairs in their order in the buffer
RECURSIVE DecodedDictionary(_)
DecodedDictionary(pairs) ==
  IF pairs = <<>> THEN DictionaryNode(<<>>)
  ELSE LET last == pairs[Len(pairs)]
       IN DictionaryNode(
            DictSet(DecodedDictionary(SubSeq(pairs, 1, Len(pairs) - 1)).value,
                    last[1], last[2]))

\* the values under the keys: a String and a dictionary of two keys
Leaves ==
  {DecodedString(<<"x">>),
   DecodedDictionary(<<<<DecodedString(<<"z">>), IntegerNode(7)>>,
                       <<DecodedString(<<"b">>), IntegerNode(0 - 1)>>>>)}

Pairs == {<<DecodedString(k), v>> : k \in KeyValues, v \in Leaves}

\* Dictionary.dump(formatter, tabchar, depth)
DictionaryDump ==
  /\ pc = "call"
  /\ \E n \in 0..MaxItems, depth \in Depths :
       \E pairs \in [1..n -> Pairs] :
         LET node == DecodedDictionary(pairs)
             calls == Dictionary_dump_keys(node, TAB_CHAR, depth, 1)
         IN Render(Applied("Dictionary.dump",
                           [node |-> node, tabchar |-> TAB_CHAR,
                            depth |-> depth],
                           calls),
                   calls, "none")

\* Dictionary.__init__ on the pairs in their order in the buffer, then
\* name in d and d[name] for every name
DictionaryInit ==
  /\ pc = "call"
  /\ \E n \in 0..MaxItems :
       \E pairs \in [1..n -> Pairs] :
         LET node == DecodedDictionary(pairs)
         IN Render(Applied("Dictionary.__init__", [pairs |-> pairs],
                           [node |-> node,
                            contains |-> [name \in KeyValues |->
                                            Contains(node, name)],
                            getitem |-> [name \in KeyValues |->
                                           Item(node, name)]]),
                   <<>>, "none")

\* the items of the lists that are dumped
Items ==
  {DecodedString(<<"x">>), IntegerNode(7), ListNode(<<IntegerNode(1)>>),
   ListNode(<<>>)}

\* List.dump(formatter, tabchar, depth)
ListDump ==
  /\ pc = "call"
  /\ \E n \in 0..MaxItems, tabchar \in Tabchars, depth \in Depths :
       \E items \in [1..n -> Items] :
         LET node == ListNode(items)
             calls == List_dump(node, tabchar, depth)
         IN Render(Applied("List.dump",
                           [node |-> node, tabchar |-> tabchar, depth |-> depth],
                           calls),
                   calls, "none")

\* bytes of each kind: printable ASCII, a control byte, a control byte that
\* string.printable holds, a control byte of 0x7F-0x9F, a byte above them
ValueChars == {"a", "<01>", "\t", "<85>", "<E9>"}

StringValues == UNION {[1..n -> ValueChars] : n \in 0..MaxValue}

\* String.__init__ on '<len>:<value>': the String and its classification
StringInit ==
  /\ pc = "call"
  /\ \E value \in StringValues :
       Render(Applied("String.__init__", [value |-> value],
                      DecodedString(value)),
              <<>>, "none")

\* the lengths a String of this value is decoded with: 'd-9:10:<01>e'
\* decodes to a dictionary whose value declares 10 bytes and holds 1
Lengths(value) == {Len(value), Len(value) + 9}

\* String.dump(formatter, tabchar, depth, newline)
StringDump ==
  /\ pc = "call"
  /\ \E value \in StringValues, tabchar \in Tabchars, depth \in Depths,
        newline \in BOOLEAN :
       \E length \in Lengths(value) :
         LET node == StringNode(length, value, asciionly)
             calls == String_dump(node, tabchar, depth, newline)
         IN Render(Applied("String.dump",
                           [node |-> node, tabchar |-> tabchar, depth |-> depth,
                            newline |-> newline],
                           calls),
                   calls, "none")

\* the 'length' values of the torrents that are reported
LengthValues == {1048576, 2097152, 524288, 0, 0 - 5}

\* one entry of a 'files' list: d6:lengthi<length>e4:pathl1:d1:fee
FileEntry(length) ==
  DecodedDictionary(
    <<<<DecodedString(Bytes_length), IntegerNode(length)>>,
      <<DecodedString(Bytes_path),
        ListNode(<<DecodedString(<<"d">>), DecodedString(<<"f">>)>>)>>>>)

\* the root dictionary of a torrent with this 'info'
WithInfo(info) ==
  DecodedDictionary(
    <<<<DecodedString(Bytes_announce), DecodedString(<<"t">>)>>,
      <<DecodedString(Bytes_info), DecodedDictionary(info)>>>>)

\* root dictionaries: with no 'info' key, of one file, of a 'files' list
Roots ==
  {DecodedDictionary(<<>>),
   DecodedDictionary(<<<<DecodedString(Bytes_announce),
                         DecodedString(<<"t">>)>>>>)}
  \cup {WithInfo(<<<<DecodedString(Bytes_name), DecodedString(<<"f">>)>>,
                    <<DecodedString(Bytes_length), IntegerNode(l)>>>>) :
          l \in LengthValues}
  \cup UNION {{WithInfo(<<<<DecodedString(Bytes_name),
                            DecodedString(<<"f">>)>>,
                          <<DecodedString(Bytes_files),
                            ListNode([k \in 1..n |-> FileEntry(ls[k])])>>>>) :
                 ls \in [1..n -> LengthValues]} : n \in 0..MaxItems}

Torrents ==
  {[filename |-> <<"test", "files", "a.torrent">>, value |-> v] : v \in Roots}

\* a report function called on torrent t that did r; the SystemExit of
\* sys.exit carries its message
ReportCall(name, t, r) ==
  Render(Applied(name, [torrent |-> t],
                 [calls |-> r.calls, exc |-> r.exc,
                  message |-> IF r.exc = "SystemExit"
                              THEN MissingInfo(PathText(t.filename))
                              ELSE <<>>]),
         r.calls, r.exc)

CallTop ==
  /\ pc = "call"
  /\ \E t \in Torrents : ReportCall("top", t, top(t))

CallBasic ==
  /\ pc = "call"
  /\ \E t \in Torrents : ReportCall("basic", t, basic(t))

CallBasicFiles ==
  /\ pc = "call"
  /\ \E t \in Torrents :
       ReportCall("basic_files", t, basic_files(t, asciionly))

CallListFiles ==
  /\ pc = "call"
  /\ \E t \in Torrents :
       ReportCall("list_files", t, list_files(t, asciionly))

\* the tag bits of TextFormatter; NONE is the empty format_spec
Tags ==
  {"NORMAL", "BRIGHT", "WHITE", "GREEN", "RED", "CYAN", "YELLOW", "MAGENTA",
   "DULL"}

Strings == {<<>>, <<"x">>, <<"a", "\n">>}

\* formatter.string_format(format_spec, string)
StringFormat ==
  /\ pc = "call"
  /\ \E format_spec \in SUBSET Tags, text \in Strings :
       Render(Applied("string_format",
                      [format_spec |-> format_spec, string |-> text],
                      <<Call(format_spec, text)>>),
              <<Call(format_spec, text)>>, "none")

\* the operands of Integer.__add__
AddValues == {0 - 1048576, 0 - 5, 0 - 1, 0, 1, 7, 1048576, 2097152}

\* x + y for two Integers
IntegerAdd ==
  /\ pc = "call"
  /\ \E x \in AddValues, y \in AddValues :
       Render(Applied("Integer.__add__", [x |-> x, y |-> y],
                      Add(Value(IntegerNode(x)), IntegerNode(y), asciionly)),
              <<>>, "none")

NextRender ==
  \/ DumpAsSize
  \/ DictionaryDump
  \/ ListDump
  \/ StringInit
  \/ StringDump
  \/ CallTop
  \/ CallBasic
  \/ CallBasicFiles
  \/ CallListFiles
  \/ StringFormat
  \/ IntegerAdd
  \/ DumpAsSizeKib
  \/ DictionaryInit

InitRender ==
  /\ revision = "src/src/torrentinfo.py"
  /\ filenames = <<>>
  /\ disk = <<>>
  /\ settings \in SUBSET {"nocolour"}
  /\ asciionly \in BOOLEAN
  /\ fileno = 1
  /\ pc = "call"
  /\ string = <<>>
  /\ index = 0
  /\ stack = <<>>
  /\ torrent = NoTorrent
  /\ exc = NoExc
  /\ stdout = <<>>
  /\ stderr = <<>>
  /\ op = NoOp

SpecRender == InitRender /\ [][NextRender]_vars

----------------------------------------------------------------------------
(* String.asciionly, String.__init__ and String.dump in any order: the     *)
(* class attribute is set, a String is decoded, the String last decoded is *)
(* dumped.  torrent.value holds the String last decoded.                   *)

\* String.asciionly = v (main sets it to True for the option ascii)
SetAsciiOnly ==
  /\ pc = "policy"
  /\ \E v \in BOOLEAN : asciionly' = v
  /\ UNCHANGED <<revision, filenames, disk, settings, fileno, pc, string,
                 index, stack, torrent, exc, stdout, stderr, op>>

\* String(StringBuffer('<len>:<value>'))
DecodeString ==
  /\ pc = "policy"
  /\ \E value \in StringValues :
       /\ torrent' = [filename |-> <<>>, value |-> DecodedString(value)]
       /\ op' = Applied("String.__init__", [value |-> value],
                        DecodedString(value))
  /\ UNCHANGED <<revision, filenames, disk, settings, asciionly, fileno, pc,
                 string, index, stack, exc, stdout, stderr>>

\* the String last decoded .dump(formatter, tabchar, depth, newline)
DumpString ==
  /\ pc = "policy"
  /\ torrent.value.type = "String"
  /\ \E tabchar \in Tabchars, depth \in Depths, newline \in BOOLEAN :
       LET calls == String_dump(torrent.value, tabchar, depth, newline)
       IN /\ op' = Applied("String.dump",
                           [node |-> torrent.value, tabchar |-> tabchar,
                            depth |-> depth, newline |-> newline],
                           calls)
          /\ stdout' = Written("nocolour" \in settings, calls)
  /\ UNCHANGED <<revision, filenames, disk, settings, asciionly, fileno, pc,
                 string, index, stack, torrent, exc, stderr>>

NextPolicy ==
  \/ SetAsciiOnly
  \/ DecodeString
  \/ DumpString

InitPolicy ==
  /\ revision = "src/src/torrentinfo.py"
  /\ filenames = <<>>
  /\ disk = <<>>
  /\ settings \in SUBSET {"nocolour"}
  /\ asciionly = FALSE
  /\ fileno = 1
  /\ pc = "policy"
  /\ string = <<>>
  /\ index = 0
  /\ stack = <<>>
  /\ torrent = NoTorrent
  /\ exc = NoExc
  /\ stdout = <<>>
  /\ stderr = <<>>
  /\ op = NoOp

SpecPolicy == InitPolicy /\ [][NextPolicy]_vars

----------------------------------------------------------------------------
(* A StringBuffer used directly: get with lengths >= 0 and is_eof, in any  *)
(* order, on a fresh buffer.  stack holds the segments that get returned,  *)
(* in their order.                                                         *)

\* 'foobarbaz'
Bytes_foobarbaz == <<"f", "o", "o", "b", "a", "r", "b", "a", "z">>

\* the strings a StringBuffer is made of
BufferStrings ==
  {<<>>, <<"a">>, <<"a", "b">>, <<"e", "e", "e">>, Bytes_foobarbaz}

\* string.get(length): a segment is returned, or BufferOverrun is raised
\* and the caller goes on
BufferGet ==
  /\ pc = "buffer"
  /\ Len(stack) < MaxGets
  /\ \E length \in 0..(Len(string) + 1) :
       LET out == get(string, index, length)
       IN /\ op' = Applied("get", [length |-> length, index |-> index], out)
          /\ index' = out.index
          /\ exc' = Exc(out.exc, out.n, "")
          /\ stack' = IF out.exc = "none" THEN Append(stack, out.ret)
                      ELSE stack
  /\ UNCHANGED <<revision, filenames, disk, settings, asciionly, fileno, pc,
                 string, torrent, stdout, stderr>>

\* string.is_eof()
BufferIsEof ==
  /\ pc = "buffer"
  /\ op' = Applied("is_eof", [index |-> index], is_eof(string, index))
  /\ UNCHANGED <<revision, filenames, disk, settings, asciionly, fileno, pc,
                 string, index, stack, torrent, exc, stdout, stderr>>

NextBuffer ==
  \/ BufferGet
  \/ BufferIsEof

\* StringBuffer(string)
InitBuffer ==
  /\ revision = "src/src/torrentinfo.py"
  /\ filenames = <<>>
  /\ disk = <<>>
  /\ settings = {}
  /\ asciionly = FALSE
  /\ fileno = 1
  /\ pc = "buffer"
  /\ string \in BufferStrings
  /\ index = 0
  /\ stack = <<>>
  /\ torrent = NoTorrent
  /\ exc = NoExc
  /\ stdout = <<>>
  /\ stderr = <<>>
  /\ op = NoOp

SpecBuffer == InitBuffer /\ [][NextBuffer]_vars

----------------------------------------------------------------------------
(* The rendering functions called one after another, in any order, on one  *)
(* decoded torrent, which torrent holds.  stdout holds what the last call  *)
(* wrote.                                                                  *)

\* a rendering that leaves the entries of the root in the reverse order
Rendered_reversed(node) ==
  [node EXCEPT !.value = [k \in 1..Len(@) |-> @[Len(@) + 1 - k]]]

\* the tree after a rendering call on it.  No statement of dump,
\* dump_as_size, join or __add__ assigns to a node, to its list or to its
\* dict: Dictionary.dump sorts keys, the new list that self.value.keys()
\* returned; reduce in List.join and in basic_files reads its list; + builds
\* its result from a new StringBuffer
Rendered(node) == node

\* a report function called on the torrent, with result r
TreeCall(name, r) ==
  /\ op' = Applied(name, [torrent |-> torrent],
                   [calls |-> r.calls, exc |-> r.exc])
  /\ stdout' = Written("nocolour" \in settings, r.calls)
  /\ exc' = Exc(r.exc, 0, "")
  /\ torrent' = [filename |-> torrent.filename,
                 value |-> Rendered(torrent.value)]
  /\ UNCHANGED <<revision, filenames, disk, settings, asciionly, fileno, pc,
                 string, index, stack, stderr>>

\* dump(formatter, torrent): Dictionary.dump, List.dump, String.dump,
\* Integer.dump
TreeDump ==
  /\ pc = "tree"
  /\ TreeCall("dump", dump(torrent))

\* basic_files(formatter, torrent): + and dump_as_size
TreeBasicFiles ==
  /\ pc = "tree"
  /\ TreeCall("basic_files", basic_files(torrent, asciionly))

\* list_files(formatter, torrent): join, dump and dump_as_size
TreeListFiles ==
  /\ pc = "tree"
  /\ TreeCall("list_files", list_files(torrent, asciionly))

NextTree ==
  \/ TreeDump
  \/ TreeBasicFiles
  \/ TreeListFiles

InitTree ==
  /\ revision = "src/src/torrentinfo.py"
  /\ filenames = <<>>
  /\ disk = <<>>
  /\ settings \in SUBSET {"nocolour"}
  /\ asciionly \in BOOLEAN
  /\ fileno = 1
  /\ pc = "tree"
  /\ string = <<>>
  /\ index = 0
  /\ stack = <<>>
  /\ torrent \in Torrents
  /\ exc = NoExc
  /\ stdout = <<>>
  /\ stderr = <<>>
  /\ op = NoOp

SpecTree == InitTree /\ [][NextTree]_vars

----------------------------------------------------------------------------
(* Claims on the rendering functions *)

Units == <<"B", "KB", "MB", "GB">>

RECURSIVE Pow1024(_)
Pow1024(k) == IF k = 0 THEN 1 ELSE 1024 * Pow1024(k - 1)

\* C11 (as claimed): dump_as_size keeps 1023 in bytes and writes the exact
\* power 1024^k, k in 1..3, as '1.0' with the k-th unit after B, followed by
\* a newline ('1.0KB' for 1024, '1.0MB' for 1048576)
C11_PowerOf1024 ==
  op.name = "Integer.dump_as_size" =>
    LET indent == Times(op.args.tabchar, op.args.depth)
    IN /\ op.args.value = 1023 =>
            Text(op.out) = indent \o <<"1", "0", "2", "3", ".", "0", "B", "\n">>
       /\ \A k \in 1..3 :
            op.args.value = Pow1024(k) =>
              Text(op.out) = indent \o <<"1", ".", "0", Units[k + 1], "\n">>

\* a comes before b in the lexicographic order of the byte values
LexLess(a, b) ==
  \E i \in 1..Len(b) :
    /\ \A j \in 1..(i - 1) : j <= Len(a) /\ a[j] = b[j]
    /\ (i > Len(a) \/ Ord(a[i]) < Ord(b[i]))

\* the text of a key and, right after it, of its value, for the entries in
\* the order p from position k on
RECURSIVE EntriesText(_, _, _, _, _)
EntriesText(entries, p, k, tabchar, depth) ==
  IF k > Len(entries) THEN <<>>
  ELSE Text(String_dump(entries[p[k]].key, tabchar, depth, TRUE))
       \o Text(Node_dump(entries[p[k]].val, tabchar, depth + 1))
       \o EntriesText(entries, p, k + 1, tabchar, depth)

\* C12: Dictionary.dump writes the keys in ascending lexicographic order of
\* their bytes, whatever their order in the decoded input, and right after
\* each key the value under it
C12_SortedKeys ==
  op.name = "Dictionary.dump" =>
    LET entries == op.args.node.value
    IN \E p \in Permutations(1..Len(entries)) :
         /\ \A k \in 1..(Len(entries) - 1) :
              LexLess(entries[p[k]].key.value, entries[p[k + 1]].key.value)
         /\ Text(op.out)
              = EntriesText(entries, p, 1, op.args.tabchar, op.args.depth)

\* a dictionary decoded with 'bba' before 'aaa' was dumped, 'aaa' first
C12_Witness ==
  /\ op.name = "Dictionary.dump"
  /\ Len(op.args.node.value) = 2
  /\ op.args.node.value[1].key.value = <<"b", "b", "a">>
  /\ op.args.node.value[2].key.value = <<"a", "a", "a">>
  /\ op.args.depth = 0
  /\ SubSeq(Text(op.out), 1, 4) = <<"a", "a", "a", "\n">>

\* for each item from position k on, the line of its zero-based index at
\* the depth of the list and then the item dumped one level deeper
RECURSIVE IndexedText(_, _, _, _)
IndexedText(items, k, tabchar, depth) ==
  IF k > Len(items) THEN <<>>
  ELSE Times(tabchar, depth) \o IntText(k - 1) \o <<"\n">>
       \o Text(Node_dump(items[k], tabchar, depth + 1))
       \o IndexedText(items, k + 1, tabchar, depth)

\* C13: List.dump of a list of one item makes exactly the output of dumping
\* that item at the same depth; of any other list it writes, item by item,
\* the index line and the item dumped at depth + 1; of an empty list nothing
C13_ListDump ==
  op.name = "List.dump" =>
    LET items == op.args.node.value
        tabchar == op.args.tabchar
        depth == op.args.depth
    IN /\ Len(items) = 1 =>
            /\ op.out = Node_dump(items[1], tabchar, depth)
            /\ stdout = Written("nocolour" \in settings,
                                Node_dump(items[1], tabchar, depth))
       /\ Len(items) # 1 =>
            Text(op.out) = IndexedText(items, 1, tabchar, depth)
       /\ Len(items) = 0 => stdout = <<>>

\* a list of one String was dumped at depth 1 with no index line
C13_Witness ==
  /\ op.name = "List.dump"
  /\ Len(op.args.node.value) = 1
  /\ op.args.node.value[1].type = "String"
  /\ op.args.depth = 1
  /\ op.args.tabchar = TAB_CHAR
  /\ Text(op.out) = <<"    ", "x", "\n">>

\* C14 (as claimed): with ascii-only mode off, a String is classified
\* printable exactly when no byte at any position of its value is a control
\* character of 0x00-0x1F or 0x7F-0x9F
C14_UnicodePrintable ==
  (op.name = "String.__init__" /\ ~asciionly) =>
    (op.out.isprintable <=>
       \A k \in 1..Len(op.args.value) : op.args.value[k] \notin ControlChars)

\* C15: with ascii-only mode on, a String is classified printable exactly
\* when every byte of its value is in string.printable; a value that holds a
\* byte that is not ASCII is classified not printable
C15_AsciiPrintable ==
  (op.name = "String.__init__" /\ asciionly) =>
    /\ op.out.isprintable <=>
         \A k \in 1..Len(op.args.value) : op.args.value[k] \in PrintableChars
    /\ (\E k \in 1..Len(op.args.value) :
          op.args.value[k] \in {"<85>", "<E9>"}) => ~op.out.isprintable

\* in ascii-only mode a value with a byte above 0x7F after an ASCII byte was
\* classified not printable
C15_Witness ==
  /\ op.name = "String.__init__"
  /\ asciionly
  /\ op.args.value = <<"a", "<E9>">>
  /\ ~op.out.isprintable

\* C16: String.dump writes the indent and then the value when the String is
\* printable, and otherwise the indent and then '[<N> UTF-8 Bytes]' with N
\* the length the String declared, and none of the bytes of the value; a
\* newline follows exactly when newline is true
C16_StringDump ==
  op.name = "String.dump" =>
    LET node == op.args.node
        indent == Times(op.args.tabchar, op.args.depth)
        nl == IF op.args.newline THEN <<"\n">> ELSE <<>>
    IN IF node.isprintable
       THEN Text(op.out) = indent \o node.value \o nl
       ELSE Text(op.out)
              = indent \o <<"[">> \o IntText(node.length)
                  \o <<" UTF-8 Bytes]">> \o nl

\* a String that is not printable was dumped with no newline
C16_Witness ==
  /\ op.name = "String.dump"
  /\ ~op.args.node.isprintable
  /\ op.args.node.value = <<"<01>", "a">>
  /\ op.args.node.length = 2
  /\ ~op.args.newline
  /\ op.args.depth = 1
  /\ Text(op.out) = op.args.tabchar \o <<"[", "2", " UTF-8 Bytes]">>

ReportFunctions == {"top", "basic", "basic_files", "list_files"}

\* C17: each of top, basic, basic_files and list_files, called on a torrent
\* whose root dictionary has no 'info' key, raises SystemExit with the
\* message 'Missing "info" section in <filename>' and writes nothing
C17_MissingInfoExit ==
  (op.name \in ReportFunctions /\ ~HasInfo(op.args.torrent)) =>
    /\ pc = "raised"
    /\ exc.name = "SystemExit"
    /\ op.out.exc = "SystemExit"
    /\ op.out.message
         = <<"Missing \"info\" section in ",
             <<"test", "/", "files", "/", "a.torrent">>>>
    /\ op.out.calls = <<>>
    /\ stdout = <<>>

\* list_files was called on a root dictionary that has keys, none of them
\* 'info'
C17_Witness ==
  /\ op.name = "list_files"
  /\ op.args.torrent.value.value # <<>>
  /\ ~HasInfo(op.args.torrent)
  /\ exc.name = "SystemExit"

\* the tags in the order of the mapping table, and their codes
TagOrder ==
  <<"NORMAL", "BRIGHT", "DULL", "WHITE", "GREEN", "CYAN", "YELLOW", "RED",
    "MAGENTA">>

TagCode ==
  [NORMAL |-> "[0m", BRIGHT |-> "[1m", DULL |-> "[22m", WHITE |-> "[37m",
   GREEN |-> "[32m", CYAN |-> "[36m", YELLOW |-> "[33m", RED |-> "[31m",
   MAGENTA |-> "[35m"]

\* the escape character and the code of each tag of format_spec, in the
\* order of the table from position k on
RECURSIVE Prefix(_, _)
Prefix(format_spec, k) ==
  IF k > Len(TagOrder) THEN <<>>
  ELSE (IF TagOrder[k] \in format_spec
        THEN <<"<1B>", TagCode[TagOrder[k]]>> ELSE <<>>)
       \o Prefix(format_spec, k + 1)

\* C18: what a formatter writes depends on the colour flag, the format_spec
\* and the string only: without colours it is the string, with colours it is
\* the escape character and the code of each tag of format_spec in the order
\* of the mapping table and then the string; RED gives ESC [31m, and another
\* tag gives another prefix
C18_Formatter ==
  op.name = "string_format" =>
    LET format_spec == op.args.format_spec
        text == op.args.string
    IN /\ "nocolour" \in settings => stdout = text
       /\ "nocolour" \notin settings =>
            /\ stdout = Prefix(format_spec, 1) \o text
            /\ format_spec = {"RED"} => stdout = <<"<1B>", "[31m">> \o text
            /\ \A t1 \in Tags :
                 format_spec = {t1} =>
                   \A t2 \in Tags \ {t1} :
                     stdout # string_format(FALSE, {t2}, text)

\* the formatter without colours was given tags and wrote the string alone
C18_Witness ==
  /\ op.name = "string_format"
  /\ "nocolour" \in settings
  /\ op.args.format_spec = {"BRIGHT", "RED"}
  /\ op.args.string = <<"x">>
  /\ stdout = <<"x">>

\* the 'files' list of the torrent a report function was called on
FilesOf(t) ==
  Dictionary_getitem(Dictionary_getitem(t.value, Bytes_info), Bytes_files)

\* the arithmetic sum of the 'length' values of the entries from k on
RECURSIVE SumOfLengths(_, _)
SumOfLengths(files, k) ==
  IF k > Len(files) THEN 0
  ELSE Dictionary_getitem(files[k], Bytes_length).value
       + SumOfLengths(files, k + 1)

\* the torrent has an 'info' with a 'files' list of more than one entry
HasManyFiles(t) ==
  /\ HasInfo(t)
  /\ Dictionary_contains(Dictionary_getitem(t.value, Bytes_info), Bytes_files)
  /\ Len(FilesOf(t).value) > 1

\* C19: for an 'info' with a 'files' list of more than one entry basic_files
\* writes the number of entries as 'num files' and as 'total size' the size
\* rendering of the arithmetic sum of the 'length' values (1048576 and
\* 2097152 give '3.0MB'); + on two Integers gives the Integer of their sum,
\* negative values included
C19_TotalSize ==
  /\ (op.name = "basic_files" /\ HasManyFiles(op.args.torrent)) =>
       LET files == FilesOf(op.args.torrent).value
           total == IntegerNode(SumOfLengths(files, 1))
       IN /\ op.out.exc = "none"
          /\ Text(op.out.calls)
               = <<"    ", "num files  ", "    ">> \o IntText(Len(files))
                   \o <<"\n", "    ", "total size ", "    ">>
                   \o Text(Integer_dump_as_size(total, <<>>, 0))
          /\ (Len(files) = 2 /\ SumOfLengths(files, 1) = 3145728) =>
               SubSeq(Text(op.out.calls), Len(Text(op.out.calls)) - 4,
                      Len(Text(op.out.calls)))
                 = <<"3", ".", "0", "MB", "\n">>
  /\ op.name = "Integer.__add__" =>
       /\ op.out.exc = "none"
       /\ op.out.val = [type |-> "Integer", value |-> op.args.x + op.args.y]

\* basic_files was called on a torrent of two files of 1048576 and 2097152
\* bytes and wrote 3.0MB
C19_Witness ==
  /\ op.name = "basic_files"
  /\ HasManyFiles(op.args.torrent)
  /\ Len(FilesOf(op.args.torrent).value) = 2
  /\ Dictionary_getitem(FilesOf(op.args.torrent).value[1], Bytes_length).value
       = 1048576
  /\ Dictionary_getitem(FilesOf(op.args.torrent).value[2], Bytes_length).value
       = 2097152
  /\ "nocolour" \in settings
  /\ stdout = <<"    ", "num files  ", "    ", "2", "\n", "    ",
                "total size ", "    ", "3", ".", "0", "MB", "\n">>

\* C20: decoding is single-pass: while a buffer is being decoded no cursor
\* operation leaves index lower than it found it, so no consuming operation
\* reads a byte a second time
C20_SinglePass == [][pc = "load" => index' >= index]_vars


\* C21 (as claimed): every decode of a finite buffer ends, with a value or
\* with a decoder error: a load that has started is left sooner or later
C21_DecodeTerminates == (pc = "load") ~> (pc # "load")

\* a String as the byte-string production makes it from 'digits : bytes'
WellFormedString(node) ==
  /\ node.type = "String"
  /\ node.length >= 0
  /\ Len(node.value) = node.length

\* C22 (as claimed): the key of every entry a Dictionary under construction
\* holds, and the key it has just read, is a String with length >= 0 and
\* len(value) = length, and so is every String the byte-string production
\* returns
C22_StringKeys ==
  /\ \A k \in 1..Len(stack) :
       stack[k].fn = "Dictionary" =>
         /\ stack[k].key # None => WellFormedString(stack[k].key)
         /\ stack[k].pc \in {"peek", "key", "value", "close"} =>
              \A j \in 1..Len(stack[k].val) :
                WellFormedString(stack[k].val[j].key)
  /\ (op.name = "get" /\ op.by = "String" /\ op.out.exc = "none") =>
       /\ op.n >= 0
       /\ Len(op.out.ret) = op.n

\* the value a constructor has just returned is v: it is where the caller
\* put it
Returned(v) ==
  IF stack = <<>> THEN torrent.value = v
  ELSE IF Top.fn = "List"
  THEN Top.val # <<>> /\ Top.val[Len(Top.val)] = v
  ELSE \E j \in 1..Len(Top.val) : Top.val[j].val = v

\* the position in the buffer of the byte at cursor i
Position(i) == IF i < 0 THEN i + Len(string) ELSE i

\* C23 (as claimed): the integer production consumes its 'i', then the bytes
\* up to the next 'e' and that 'e', and returns the integer the bytes in
\* between denote; without an 'e' it fails with CharacterExpected, and with
\* bytes in between that are no integer literal with ValueError
C23_IntegerProduction ==
  /\ (op.name = "get" /\ op.by = "Integer") =>
       /\ op.out.exc = "none"
       /\ op.out.ret = <<"i">>
       /\ Position(index) = Position(op.index0) + 1
  /\ (op.name = "get_upto" /\ op.by = "Integer") =>
       LET j == FirstAt("e", Position(op.index0))
           between == SubSeq(string, Position(op.index0) + 1, j)
       IN IF j < 0 THEN exc.name = "CharacterExpected"
          ELSE IF ~PyIntOK(between) THEN exc.name = "ValueError"
          ELSE /\ op.out.exc = "none"
               /\ exc.name # "ValueError"
               /\ Returned(IntegerNode(PyInt(between)))
               /\ index = j + 1

\* C24 (as claimed): when Torrent.load_torrent has returned a Torrent the
\* cursor is exhausted: no byte of the buffer follows the root dictionary
C24_WholeBuffer == pc = "report" => is_eof(string, index)

\* C25: the loop of dump_as_size divides at most three times, the unit it
\* picks is one of B, KB, MB, GB, and a value above 1024 GB is written in GB,
\* as the value divided by 1024^3
C25_UnitLoop ==
  /\ op.name = "Integer.dump_as_size" =>
       \E k \in 1..4 : Text(op.out)[Len(Text(op.out)) - 1] = Units[k]
  /\ op.name = "Integer.dump_as_size on 1024 * kib" =>
       LET text == Text(op.out.calls)
           t == tenths(op.args.kib, 1048576)
       IN /\ op.out.divisions <= 3
          /\ \E k \in 1..4 : text[Len(text) - 1] = Units[k]
          /\ op.args.kib > 1073741824 =>
               text = Times(op.args.tabchar, op.args.depth)
                        \o IntText(t \div 10) \o <<".">> \o IntText(t % 10)
                        \o <<"GB", "\n">>

\* dump_as_size was called on 1024 * 1610612736 bytes, which is 1536 GB, and
\* wrote 1536.0GB after three divisions
C25_Witness ==
  /\ op.name = "Integer.dump_as_size on 1024 * kib"
  /\ op.args.kib = 1610612736
  /\ op.out.divisions = 3
  /\ "nocolour" \in settings
  /\ stdout = Times(op.args.tabchar, op.args.depth)
                \o <<"1", "5", "3", "6", ".", "0", "GB", "\n">>

\* C26: a decoded Dictionary holds one entry for each key value of its
\* input, however often the key occurs there, with the value of the last
\* occurrence, and key in d and d[key] agree with it; a key value that does
\* not occur has no entry
C26_UniqueKeys ==
  op.name = "Dictionary.__init__" =>
    \A name \in KeyValues :
      LET pairs == op.args.pairs
          entries == op.out.node.value
          occurs == {j \in 1..Len(pairs) : pairs[j][1].value = name}
          held == {k \in 1..Len(entries) : entries[k].key.value = name}
      IN IF occurs = {}
         THEN /\ held = {}
              /\ op.out.contains[name] = "no"
              /\ op.out.getitem[name].exc = "KeyError"
         ELSE /\ Cardinality(held) = 1
              /\ op.out.contains[name] = "yes"
              /\ op.out.getitem[name]
                   = Value(pairs[CHOOSE j \in occurs :
                                   \A i \in occurs : i <= j][2])

\* a dictionary was decoded from three pairs, the first and the last with
\* the key 'a' and different values, and holds two entries
C26_Witness ==
  /\ op.name = "Dictionary.__init__"
  /\ Len(op.args.pairs) = 3
  /\ op.args.pairs[1][1].value = <<"a">>
  /\ op.args.pairs[3][1].value = <<"a">>
  /\ op.args.pairs[2][1].value # <<"a">>
  /\ op.args.pairs[1][2] # op.args.pairs[3][2]
  /\ Len(op.out.node.value) = 2
  /\ op.out.getitem[<<"a">>].val = op.args.pairs[3][2]

\* C27 (as claimed): whenever a String is dumped, what is written is what
\* the printability rule gives for its value under String.asciionly as it is
\* at the dump, whatever it was when the String was decoded
C27_PolicyAtDump ==
  [][DumpString =>
       stdout' = Written("nocolour" \in settings,
                         String_dump(StringNode(torrent.value.length,
                                                torrent.value.value,
                                                asciionly),
                                     op'.args.tabchar, op'.args.depth,
                                     op'.args.newline))]_vars

ModeOptions == settings \ {"nocolour", "ascii"}

SelectedMode ==
  IF ModeOptions = {} \/ "basic" \in ModeOptions
  THEN Then(basic(torrent), basic_files(torrent, asciionly))
  ELSE IF "dump" \in ModeOptions THEN dump(torrent)
  ELSE IF "files" \in ModeOptions
  THEN Then(basic(torrent), list_files(torrent, asciionly))
  ELSE top(torrent)

BaseNameLine ==
  string_format("nocolour" \in settings, {"BRIGHT"},
                basename(torrent.filename) \o <<"\n">>)

BlankLine == string_format("nocolour" \in settings, {"NORMAL"}, <<"\n">>)

\* C29 (as claimed): for every loaded file main writes the base name, what
\* the one selected report mode writes, and one blank line
C29_OneModeThenBlank ==
  [][pc = "report" =>
       stdout' = stdout \o BaseNameLine
                   \o Written("nocolour" \in settings, SelectedMode.calls)
                   \o BlankLine]_vars

\* C29 (amended): for every loaded file main writes the base name and what
\* the one selected report mode writes; when the mode returns, one blank line
\* follows and the loop goes to the next file; when it raises (SystemExit for
\* a missing 'info', or an exception that nothing catches), nothing follows
\* what it wrote before, and main ends
C29_OneMode ==
  [][pc = "report" =>
       /\ stdout' = stdout \o BaseNameLine
                      \o Written("nocolour" \in settings, SelectedMode.calls)
                      \o (IF SelectedMode.exc = "none" THEN BlankLine
                          ELSE <<>>)
       /\ IF SelectedMode.exc = "none"
          THEN pc' = "loop" /\ fileno' = fileno + 1
          ELSE pc' \in {"exited", "crashed"} /\ fileno' = fileno]_vars

\* main was given dump, files and top, and has written for its first file
\* the base name, the dump and the blank line, and nothing else
C29_Witness ==
  /\ {"dump", "files", "top"} \subseteq settings
  /\ "basic" \notin settings
  /\ pc = "loop"
  /\ fileno = 2
  /\ torrent.value.type = "Dictionary"
  /\ HasInfo(torrent)
  /\ stdout = BaseNameLine
                \o Written("nocolour" \in settings, dump(torrent).calls)
                \o BlankLine

\* the segments one after another
RECURSIVE Concatenation(_)
Concatenation(segments) ==
  IF segments = <<>> THEN <<>>
  ELSE segments[1] \o Concatenation(Tail(segments))

\* C30: after any successful get calls with lengths >= 0 on a fresh buffer
\* the segments returned, one after another, are the first index bytes of
\* the buffer, and is_eof() is true exactly when index is the length of the
\* buffer
C30_ConsecutiveSegments ==
  /\ Concatenation(stack) = SubSeq(string, 1, index)
  /\ op.name = "get" =>
       IF op.out.exc = "none"
       THEN /\ index = op.args.index + op.args.length
            /\ stack[Len(stack)]
                 = SubSeq(string, op.args.index + 1, index)
       ELSE index = op.args.index
  /\ op.name = "is_eof" => (op.out <=> op.args.index = Len(string))
  /\ is_eof(string, index) <=> index = Len(string)

\* 'foobarbaz' was read by three get(3) calls, which returned 'foo', 'bar'
\* and 'baz', and is_eof() has answered true
C30_Witness ==
  /\ string = Bytes_foobarbaz
  /\ stack = <<<<"f", "o", "o">>, <<"b", "a", "r">>, <<"b", "a", "z">>>>
  /\ index = 9
  /\ op.name = "is_eof"
  /\ op.out = TRUE

====
